---- MODULE Spec2Model ----
(***************************************************************************)
(* Model of p3Heap.c: a boundary-tag allocator over one mmap'ed region.    *)
(* Memory is a function from the byte addresses of the region's 4-byte     *)
(* words to 32-bit ints.  Each of init_heap, alloc and free_block is one   *)
(* action that runs the whole call.                                        *)
(***************************************************************************)
EXTENDS Integers, Sequences, FiniteSets, TLC

\* ---------------------------------------------------------------- bounds
\* the page size the operating system reports, in units of 8 bytes
PageUnits == 7
\* the largest k for which a request of 8*k + 4 bytes is tried
MaxReqUnits == 2
\* the number of calls a run makes
MaxCalls == 7

\* ------------------------------------------------------------- constants
INT_MAX == 2147483647
INT_MIN == -2147483647 - 1
NULL == 0
\* the address mmap returns (page aligned, hence a multiple of 8)
RegionBase == 16

PageSize == 8 * PageUnits

\* ------------------------------------------------------- 32-bit int model
\* a + b in a 32-bit int, wrapping around
Add32(a, b) ==
    IF b >= 0 /\ a > INT_MAX - b THEN (a - INT_MAX - 1) + (b - INT_MAX - 1)
    ELSE IF b < 0 /\ a < INT_MIN - b THEN (a + INT_MAX + 1) + (b + INT_MAX + 1)
    ELSE a + b

\* a - b in a 32-bit int, wrapping around
Sub32(a, b) ==
    IF b = INT_MIN THEN Add32(Add32(a, INT_MAX), 1) ELSE Add32(a, -b)

\* C's a % 8 (the remainder has the sign of a)
CRem8(a) ==
    IF a >= 0 THEN a % 8 ELSE -((((-(a + 1)) % 8) + 1) % 8)

\* w & 0x1, w & 0x2, w & ~0x1, w & ~0x2, w & ~0x3 on two's complement words
And1(w) == w % 2
And2(w) == (w % 4) - (w % 2)
\* mutant: the bit is left as it is
AndNot1_Mutant(w) == w

AndNot1(w) == w - And1(w)
AndNot2(w) == w - And2(w)
AndNot3(w) == w - (w % 4)
\* mutant: the bit of b is dropped
Or2_Mutant(a, b) == a

\* a | b for b in {0, 2}
Or2(a, b) == IF b = 2 /\ And2(a) = 0 THEN a + 2 ELSE a

\* pointer + byte offset.  Pointers are 64 bits wide and the region lies far
\* from both ends of the address space, so the sum never wraps; the model
\* keeps it exact inside the 32-bit range and saturates it outside, where it
\* is in any case far below or far above the region
PtrAdd(p, d) ==
    IF d >= 0 /\ p > INT_MAX - d THEN INT_MAX
    ELSE IF d < 0 /\ p < INT_MIN - d THEN INT_MIN
    ELSE p + d

\* ------------------------------------------------------------------ state
VARIABLES
    allocated_once, \* static int allocated_once of init_heap
    heap_start,     \* blockHeader *heap_start (NULL before init_heap)
    alloc_size,     \* int alloc_size
    heap_end,       \* char *heap_end
    mem,            \* the mapped region: word address -> int
    status,         \* "ready", or how the process ended on a wild access
    last,           \* the last call: [op, arg, ret, back]
    prev,           \* the call before the last one
    pre,            \* mem as it was when the last call started
    calls           \* the number of calls made so far

vars == <<allocated_once, heap_start, alloc_size, heap_end, mem, status,
          last, prev, pre, calls>>

\* back tells whether the call returned; ret is what it returned
NoCall == [op |-> "none", arg |-> 0, ret |-> 0, back |-> TRUE]

\* the word addresses of a region of n bytes at base b
RegionWords(b, n) == {a \in b..(b + n - 1) : (a - b) % 4 = 0}

\* ------------------------------------------------- memory access machine
\* m = [mem, ok, wr]; ok turns FALSE at the first access outside the region
\* and every later store is then skipped (the call does not go on); wr is the
\* set of addresses the call has stored to
Machine(memory) == [mem |-> memory, ok |-> TRUE, wr |-> {}]
Mapped(m, a) == a \in DOMAIN m.mem
Touch(m, a) == IF m.ok /\ ~Mapped(m, a) THEN [m EXCEPT !.ok = FALSE] ELSE m
Load(m, a) == IF Mapped(m, a) THEN m.mem[a] ELSE 0
Store(m, a, v) ==
    IF ~m.ok THEN m
    ELSE IF Mapped(m, a) THEN [m EXCEPT !.mem[a] = v, !.wr = @ \cup {a}]
    ELSE [m EXCEPT !.ok = FALSE, !.wr = @ \cup {a}]

\* what becomes of the process on an access outside the region: killed by a
\* signal, or the access lands in foreign memory and nothing is known after
WildOutcomes == {"crashed", "undefined"}

Init ==
    /\ allocated_once = 0
    /\ heap_start = NULL
    /\ alloc_size = 0
    /\ heap_end = NULL
    /\ mem = [a \in {} |-> 0]
    /\ status = "ready"
    /\ last = NoCall
    /\ prev = NoCall
    /\ pre = [a \in {} |-> 0]
    /\ calls = 0

\* --------------------------------------------------------------- init_heap
\* mutant: the size is not padded to whole pages
PaddedSize_Mutant(sizeOfRegion) == sizeOfRegion

\* alloc_size = sizeOfRegion + padsize
PaddedSize(sizeOfRegion) ==
    sizeOfRegion + ((PageSize - (sizeOfRegion % PageSize)) % PageSize)

\* the region as init_heap leaves it: zero filled by mmap of /dev/zero, then
\* end mark, header and footer of the one free block
InitialMem(base, usable) ==
    LET hs == base + 4
        m0 == Machine([a \in RegionWords(base, usable + 8) |-> 0])
        m1 == Store(m0, hs + usable, 1)
        m2 == Store(m1, hs, usable)
        m3 == Store(m2, hs, Load(m2, hs) + 2)
        m4 == Store(m3, hs + usable - 4, usable)
    IN  m4.mem

Record(op, arg, ret, back) ==
    /\ last' = [op |-> op, arg |-> arg, ret |-> ret, back |-> back]
    /\ prev' = last
    /\ pre' = mem
    /\ calls < MaxCalls
    /\ calls' = calls + 1

init_heap(sizeOfRegion, os) ==
    /\ status = "ready"
    /\ IF allocated_once # 0 \/ sizeOfRegion <= 0
       THEN /\ Record("init", sizeOfRegion, -1, TRUE)
            /\ UNCHANGED <<allocated_once, heap_start, alloc_size, heap_end,
                           mem, status>>
       ELSE IF os = "no open" \/ os = "no mmap"
       THEN /\ alloc_size' = PaddedSize(sizeOfRegion)
            /\ allocated_once' = 0
            /\ Record("init", sizeOfRegion, -1, TRUE)
            /\ UNCHANGED <<heap_start, heap_end, mem, status>>
       ELSE /\ allocated_once' = 1
            /\ alloc_size' = PaddedSize(sizeOfRegion) - 8
            /\ heap_start' = RegionBase + 4
            /\ mem' = InitialMem(RegionBase, PaddedSize(sizeOfRegion) - 8)
            /\ Record("init", sizeOfRegion, 0, TRUE)
            /\ UNCHANGED <<heap_end, status>>

\* ------------------------------------------------------------------- alloc
\* the outcome of a call: the memory it leaves, whether every access stayed
\* inside the region, whether the call came back, what it returned, and the
\* addresses it stored to
Outcome(m, ret) ==
    [mem |-> m.mem, ok |-> m.ok, hung |-> FALSE, ret |-> ret, wr |-> m.wr]
Hangs(m) ==
    [mem |-> m.mem, ok |-> m.ok, hung |-> TRUE, ret |-> 0, wr |-> m.wr]

\* if(size < 1) return NULL
TooSmall(size) == size < 1

\* size += 4, then padded to a multiple of 8
BlockSizeFor(size) ==
    LET s4 == Add32(size, 4)
    IN  IF CRem8(s4) # 0 THEN Add32(s4, 8 - CRem8(s4)) ELSE s4

\* mutant: every fitting block replaces the best one so far
BetterFit_Mutant(blockSize, size, bestSize) == blockSize >= size

\* if(blockSize >= size && blockSize < bestSize)
BetterFit(blockSize, size, bestSize) == blockSize >= size /\ blockSize < bestSize

\* mutant: the header's own address is handed out
PayloadOf_Mutant(header) == header

\* return (void*)((char*)current + 4): the payload follows the header
PayloadOf(header) == PtrAdd(header, 4)

\* mutant: the end of the heap counts as a header
InHeap_Mutant(nextHeader, he) == nextHeader <= he

\* (char*)nextHeader < heap_end
InHeap(nextHeader, he) == nextHeader < he

\* the exact-fit branch: set the a-bit, set the p-bit of the next header
AllocExact(m, current, blockSize, he) ==
    LET nextHeader == PtrAdd(current, blockSize)
        m1 == Store(m, current, Add32(Load(m, current), 1))
        m2 == IF InHeap(nextHeader, he) THEN Touch(m1, nextHeader) ELSE m1
        m3 == IF InHeap(nextHeader, he) /\ And2(Load(m2, nextHeader)) = 0
              THEN Store(m2, nextHeader, Add32(Load(m2, nextHeader), 2))
              ELSE m2
    IN  Outcome(m3, PayloadOf(current))

\* if(blockSize < size) { current = nextHeader; continue; }
Skipped(current, nextHeader) == nextHeader

\* the while loop of alloc; fuel counts the iterations still allowed before
\* the loop is taken to run forever (a chain of blocks has fewer blocks than
\* the region has words).  The result tells how the loop ended, where current
\* stood then and how much fuel was left
RECURSIVE Search(_, _, _, _, _, _, _)
Search(m, current, size, bestFit, bestSize, he, fuel) ==
    IF ~(current < he)
    THEN [kind |-> "end", m |-> m, bestFit |-> bestFit, at |-> current,
          left |-> fuel]
    ELSE IF ~Mapped(m, current)
    THEN [kind |-> "end", m |-> Touch(m, current), bestFit |-> bestFit,
          at |-> current, left |-> fuel]
    ELSE IF Load(m, current) = 1
    THEN [kind |-> "end", m |-> m, bestFit |-> bestFit, at |-> current,
          left |-> fuel]
    ELSE IF fuel = 0
    THEN [kind |-> "hang", m |-> m, bestFit |-> bestFit, at |-> current,
          left |-> fuel]
    ELSE LET blockSize == AndNot3(Load(m, current))
             nextHeader == PtrAdd(current, blockSize)
         IN  IF blockSize < size
             THEN Search(m, Skipped(current, nextHeader), size, bestFit,
                         bestSize, he, fuel - 1)
             ELSE IF And1(Load(m, current)) = 0
             THEN IF blockSize = size
                  THEN [kind |-> "exact", m |-> m, bestFit |-> current,
                        at |-> current, left |-> fuel]
                  ELSE IF BetterFit(blockSize, size, bestSize)
                  THEN Search(m, nextHeader, size, current, blockSize, he,
                              fuel - 1)
                  ELSE Search(m, nextHeader, size, bestFit, bestSize, he,
                              fuel - 1)
             ELSE Search(m, nextHeader, size, bestFit, bestSize, he, fuel - 1)

\* mutant: the remainder keeps the size of the block that was split
RemainderSize_Mutant(totalFreeSize, size) == totalFreeSize

\* int bestFitSize = totalFreeSize - size
RemainderSize(totalFreeSize, size) == Sub32(totalFreeSize, size)

\* the split branch: bestFit becomes the allocated block, the rest a free one
AllocSplit(m, newBlock, size) ==
    LET totalFreeSize == AndNot3(Load(m, newBlock))
        bestFitSize == RemainderSize(totalFreeSize, size)
        m1 == Store(m, newBlock,
                    Add32(Add32(size, And2(Load(m, newBlock))), 1))
        bestFit == PtrAdd(newBlock, size)
        m2 == Store(m1, PtrAdd(PtrAdd(bestFit, bestFitSize), -4), bestFitSize)
        m3 == Store(m2, bestFit, Or2(bestFitSize, And2(Load(m2, newBlock))))
    IN  Outcome(m3, PayloadOf(newBlock))

\* more iterations than a chain of blocks in memory can have
Fuel(memory) == Cardinality(DOMAIN memory) + 1

\* the whole of alloc(size) on memory memory
alloc_run(memory, size0) ==
    IF TooSmall(size0) THEN Outcome(Machine(memory), NULL)
    ELSE LET size == BlockSizeFor(size0)
             he == PtrAdd(heap_start, alloc_size)
             s == Search(Machine(memory), heap_start, size, NULL, INT_MAX, he,
                         Fuel(memory))
         IN  IF s.kind = "hang" THEN Hangs(s.m)
             ELSE IF ~s.m.ok THEN Outcome(s.m, NULL)
             ELSE IF s.kind = "exact"
             THEN AllocExact(s.m, s.bestFit, size, he)
             ELSE IF s.bestFit # NULL THEN AllocSplit(s.m, s.bestFit, size)
             ELSE Outcome(s.m, NULL)

\* a call ends: it returned, or it left the region, or it never came back
Finish(op, arg, r) ==
    /\ mem' = r.mem
    /\ IF r.hung THEN status' = "hung" /\ Record(op, arg, 0, FALSE)
       ELSE IF ~r.ok THEN status' \in WildOutcomes /\ Record(op, arg, 0, FALSE)
       ELSE status' = status /\ Record(op, arg, r.ret, TRUE)

alloc(size) ==
    /\ status = "ready"
    /\ Finish("alloc", size, alloc_run(mem, size))
    /\ heap_end' = IF TooSmall(size) THEN heap_end
                   ELSE PtrAdd(heap_start, alloc_size)
    /\ UNCHANGED <<allocated_once, heap_start, alloc_size>>

\* -------------------------------------------------------------- free_block
\* pointer - byte offset
PtrSub(p, d) == IF d = INT_MIN THEN INT_MAX ELSE PtrAdd(p, -d)

\* if(ptr == NULL || (uintptr_t)ptr % 8 != 0) return -1
BadPointer(ptr) == ptr = NULL \/ ptr % 8 # 0

\* mutant: the upper limit lets the address past the end mark through
OutsideHeap_Mutant(ptr, hs, he) == ptr < hs \/ ptr > he + 4

\* if((char*)ptr < (char*)heap_start || (char*)ptr >= heap_end) return -1
OutsideHeap(ptr, hs, he) == ptr < hs \/ ptr >= he

\* mutant: a released block is not recognised
AlreadyFreed_Mutant(word) == FALSE

\* if((ptr_header->size_status & 0x1) == 0) return -1
AlreadyFreed(word) == And1(word) = 0

\* mutant: the next block is never merged
NextIsFree_Mutant(word) == FALSE

\* if((next_header->size_status & 0x1) == 0): coalesce the next block
NextIsFree(word) == And1(word) = 0

\* mutant: the previous block is never merged
PrevIsFree_Mutant(word) == FALSE

\* if((ptr_header->size_status & 0x2) == 0): coalesce the previous block
PrevIsFree(word) == And2(word) = 0

\* mutant: the p-bit of the next block is never cleared
NotEndMark_Mutant(word) == FALSE

\* if((next_header->size_status & ~0x3) != 0): the p-bit of it is cleared
NotEndMark(word) == AndNot3(word) # 0

\* mutant: no footer for the block that ends at the end mark
FooterInHeap_Mutant(ptr_footer, he) == ptr_footer < he - 4

\* if ((char*)ptr_footer < heap_end): the footer is written
FooterInHeap(ptr_footer, he) == ptr_footer < he

\* free_block past its checks: the a-bit is cleared, then the next and the
\* previous block are merged in, then the p-bit after and the footer are set
FreeBody(m0, ptr_header0, he) ==
    LET m1 == Store(m0, ptr_header0, AndNot1(Load(m0, ptr_header0)))
        size1 == AndNot3(Load(m1, ptr_header0))
        next1 == PtrAdd(ptr_header0, size1)
        m2 == Touch(m1, next1)
        mergeNext == NextIsFree(Load(m2, next1))
        size2 == IF mergeNext
                 THEN Add32(size1, AndNot3(Load(m2, next1))) ELSE size1
        m3 == IF mergeNext
              THEN Store(m2, ptr_header0,
                         Or2(size2, And2(Load(m2, ptr_header0))))
              ELSE m2
        mergePrev == PrevIsFree(Load(m3, ptr_header0))
        prev_footer == PtrAdd(ptr_header0, -4)
        m4 == IF mergePrev THEN Touch(m3, prev_footer) ELSE m3
        prev_header == PtrSub(ptr_header0, Load(m4, prev_footer))
        ptr_header == IF mergePrev THEN prev_header ELSE ptr_header0
        size3 == IF mergePrev THEN Add32(size2, Load(m4, prev_footer))
                 ELSE size2
        m5 == IF mergePrev THEN Touch(m4, prev_header) ELSE m4
        m6 == IF mergePrev
              THEN Store(m5, ptr_header, Or2(size3, And2(Load(m5, prev_header))))
              ELSE m5
        next_header == PtrAdd(ptr_header, size3)
        m7 == Touch(m6, next_header)
        m8 == IF NotEndMark(Load(m7, next_header))
              THEN Store(m7, next_header, AndNot2(Load(m7, next_header)))
              ELSE m7
        ptr_footer == PtrAdd(PtrAdd(ptr_header, size3), -4)
        m9 == IF FooterInHeap(ptr_footer, he)
              THEN Store(m8, ptr_footer, size3) ELSE m8
    IN  Outcome(m9, 0)

\* the whole of free_block(ptr) on memory memory
free_run(memory, ptr) ==
    LET m0 == Machine(memory)
        he == PtrAdd(heap_start, alloc_size)
        ptr_header == PtrAdd(ptr, -4)
    IN  IF BadPointer(ptr) THEN Outcome(m0, -1)
        ELSE IF OutsideHeap(ptr, heap_start, he) THEN Outcome(m0, -1)
        ELSE IF ~Mapped(m0, ptr_header)
        THEN Outcome(Touch(m0, ptr_header), 0)
        ELSE IF AlreadyFreed(Load(m0, ptr_header)) THEN Outcome(m0, -1)
        ELSE FreeBody(m0, ptr_header, he)

free_block(ptr) ==
    /\ status = "ready"
    /\ Finish("free", ptr, free_run(mem, ptr))
    /\ heap_end' = IF BadPointer(ptr) THEN heap_end
                   ELSE PtrAdd(heap_start, alloc_size)
    /\ UNCHANGED <<allocated_once, heap_start, alloc_size>>

\* ------------------------------------------------------- the caller's inputs
\* sizes passed to init_heap: not positive, one byte, a whole page
RegionSizes == {0, 1, PageSize}

\* how the operating system answers init_heap
OsAnswers == {"ok", "no open", "no mmap"}

\* sizes passed to alloc: not positive, one byte, the sizes that fill a block
\* of 8 * (k + 1) bytes, the size that fills the whole arena of a one-page
\* region, and a size no arena of one page can hold
Requests == {0, 1} \cup {8 * k + 4 : k \in 0..MaxReqUnits}
            \cup {PageSize - 12, PageSize}

\* pointers passed to free_block: NULL, the region base (aligned, below
\* heap_start), heap_start and the word after the first payload (not
\* aligned), every payload address of a one-page region, and the address
\* just past the end mark
Pointers == {NULL, RegionBase, RegionBase + 4, RegionBase + 12}
            \cup {RegionBase + 8 * k : k \in 1..PageUnits}

\* requests whose block size does not fit a 32-bit int
HugeRequests == {INT_MAX - 11, INT_MAX - 10, INT_MAX - 4, INT_MAX - 3, INT_MAX}

Initialize == \E s \in RegionSizes, os \in OsAnswers : init_heap(s, os)
Allocate == \E n \in Requests : alloc(n)
AllocateHuge == \E n \in HugeRequests : alloc(n)
Release == \E p \in Pointers : free_block(p)

Next == Initialize \/ Allocate \/ Release
Spec == Init /\ [][Next]_vars

NextHuge == Initialize \/ Allocate \/ AllocateHuge \/ Release
SpecHuge == Init /\ [][NextHuge]_vars

\* ---------------------------------------------------- reading a heap image
\* init_heap has succeeded
Initialized == allocated_once = 1

\* the address of the end mark
EndMark == heap_start + alloc_size

SizeOf(word) == AndNot3(word)
IsFree(word) == And1(word) = 0

\* the walk from address a by successive sizes: the blocks it visits, and
\* whether every size was a positive multiple of 8 and the walk landed
\* exactly on the end mark
RECURSIVE Walk(_, _, _, _)
Walk(memory, a, he, fuel) ==
    IF a = he THEN [blocks |-> <<>>, ok |-> TRUE]
    ELSE IF a > he \/ a \notin DOMAIN memory \/ fuel = 0
    THEN [blocks |-> <<>>, ok |-> FALSE]
    ELSE LET sz == SizeOf(memory[a])
         IN  IF sz <= 0 \/ sz % 8 # 0
             THEN [blocks |-> <<a>>, ok |-> FALSE]
             ELSE LET r == Walk(memory, a + sz, he, fuel - 1)
                  IN  [blocks |-> <<a>> \o r.blocks, ok |-> r.ok]

WalkOf(memory) ==
    Walk(memory, heap_start, EndMark, Cardinality(DOMAIN memory))

\* the blocks of a heap image, in address order
BlocksOf(memory) == WalkOf(memory).blocks

ChainOK(memory) ==
    /\ WalkOf(memory).ok
    /\ EndMark \in DOMAIN memory
    /\ memory[EndMark] = 1

\* the addresses of the free blocks of a heap image
FreeBlocks(memory) ==
    LET b == BlocksOf(memory)
    IN  {b[i] : i \in {j \in 1..Len(b) : IsFree(memory[b[j]])}}

FooterAddr(memory, a) == a + SizeOf(memory[a]) - 4

NoAdjacentFreeIn(memory) ==
    LET b == BlocksOf(memory)
    IN  \A i \in 1..(Len(b) - 1) :
            ~(IsFree(memory[b[i]]) /\ IsFree(memory[b[i + 1]]))

\* the block structure of a heap image: every block with its header word,
\* and its footer word when it is free
Structure(memory) ==
    LET b == BlocksOf(memory)
    IN  [i \in 1..Len(b) |->
            [addr |-> b[i], header |-> memory[b[i]],
             footer |-> IF /\ IsFree(memory[b[i]])
                           /\ FooterAddr(memory, b[i]) \in DOMAIN memory
                        THEN memory[FooterAddr(memory, b[i])] ELSE -1]]

\* n + 4 rounded up to a multiple of 8, for n that is far from the int range
Required(n) == ((n + 4 + 7) \div 8) * 8

\* a block of size bytes can hold a request of n bytes and its header; for a
\* size that is a multiple of 8 this is size >= n + 4 rounded up to 8, and
\* it is written so that it can be evaluated for every n up to INT_MAX
CanHold(size, n) == size - 4 >= n

\* the sum of the sizes of the free blocks among b[1..i]
RECURSIVE FreeSum(_, _, _)
FreeSum(memory, b, i) ==
    IF i = 0 THEN 0
    ELSE FreeSum(memory, b, i - 1)
         + (IF IsFree(memory[b[i]]) THEN SizeOf(memory[b[i]]) ELSE 0)

\* the total free space of a heap image
FreeTotal(memory) == FreeSum(memory, BlocksOf(memory), Len(BlocksOf(memory)))

\* the free blocks of a heap image that can hold a request of n bytes
Fitting(memory, n) ==
    {a \in FreeBlocks(memory) : CanHold(SizeOf(memory[a]), n)}

TypeOK == status \in {"ready", "crashed", "undefined", "hung"}

\* ------------------------------------------------------------------ claims

\* C1 - chain integrity: once init_heap has succeeded, after any sequence of
\* alloc and free_block calls the walk from heap_start by successive sizes
\* visits only blocks whose size is a positive multiple of 8 and lands
\* exactly on the end mark at heap_start + alloc_size, whose word is 1
C1_ChainIntegrity == Initialized => (status = "ready" /\ ChainOK(mem))

\* a release has succeeded and the arena holds at least three blocks
C1_Witness ==
    /\ Initialized
    /\ last.op = "free" /\ last.back /\ last.ret = 0
    /\ Len(BlocksOf(mem)) >= 3

\* C2 - no adjacent free blocks: in every state reached after init_heap no
\* two blocks that are neighbours in address order are both free
C2_NoAdjacentFree == Initialized => NoAdjacentFreeIn(mem)

\* a release has merged the block with both of its neighbours
C2_Witness ==
    /\ Initialized
    /\ last.op = "free" /\ last.back /\ last.ret = 0
    /\ Len(BlocksOf(mem)) = Len(BlocksOf(pre)) - 2

\* C3 - prev_alloc_bit: bit 1 of every block but the first equals the
\* alloc_bit of the block before it, and bit 1 of the first block is set
C3_PrevAllocBit ==
    Initialized =>
        LET b == BlocksOf(mem)
        IN  /\ Len(b) >= 1
            /\ And2(mem[b[1]]) = 2
            /\ \A i \in 2..Len(b) : And2(mem[b[i]]) = 2 * And1(mem[b[i - 1]])

\* a release has left an allocated block behind a free one
C3_Witness ==
    /\ Initialized
    /\ last.op = "free" /\ last.back /\ last.ret = 0
    /\ LET b == BlocksOf(mem)
       IN  \E i \in 2..Len(b) : And1(mem[b[i]]) = 1 /\ And2(mem[b[i]]) = 0

\* C4 - footer: the last word of every free block, the one that ends at the
\* end mark included, equals the size in its header
C4_Footer ==
    Initialized =>
        \A a \in FreeBlocks(mem) : mem[FooterAddr(mem, a)] = SizeOf(mem[a])

\* a release has grown the free block that ends at the end mark
C4_Witness ==
    /\ Initialized
    /\ last.op = "free" /\ last.back /\ last.ret = 0
    /\ \E a \in FreeBlocks(mem) :
          /\ a + SizeOf(mem[a]) = EndMark
          /\ pre[FooterAddr(mem, a)] # SizeOf(mem[a])

\* C5 - best fit: when some free block can hold the required size, alloc
\* returns the payload of the smallest such block, the lowest-addressed one
\* among equals, and that block is allocated afterwards
C5_BestFit ==
    (/\ Initialized
     /\ last.op = "alloc"
     /\ last.arg >= 1
     /\ Fitting(pre, last.arg) # {})
    => LET fit == Fitting(pre, last.arg)
           b == last.ret - 4
       IN  /\ last.back
           /\ last.ret # NULL
           /\ b \in fit
           /\ \A c \in fit :
                 \/ SizeOf(pre[b]) < SizeOf(pre[c])
                 \/ SizeOf(pre[b]) = SizeOf(pre[c]) /\ b <= c
           /\ \E i \in 1..Len(BlocksOf(mem)) : BlocksOf(mem)[i] = b
           /\ And1(mem[b]) = 1

\* alloc has passed over a larger fitting free block at a lower address and
\* split a smaller one
C5_Witness ==
    /\ Initialized
    /\ last.op = "alloc" /\ last.arg >= 1 /\ last.back /\ last.ret # NULL
    /\ \E c \in Fitting(pre, last.arg) :
          /\ c < last.ret - 4
          /\ SizeOf(pre[c]) > SizeOf(pre[last.ret - 4])
    /\ SizeOf(pre[last.ret - 4]) > Required(last.arg)

\* C6 - no fit: an alloc of less than one byte, and an alloc for which no
\* single free block is large enough for the request and its header, returns
\* NULL and leaves every word of the arena as it was
C6_NoFit ==
    (/\ last.op = "alloc"
     /\ \/ last.arg < 1
        \/ Initialized /\ Fitting(pre, last.arg) = {})
    => (last.back /\ last.ret = NULL /\ mem = pre)

\* C7 - exhaustion over the whole int range: for every request from 1 to
\* INT_MAX the block size used is at least the request plus the header, and
\* a request larger than the total free space returns NULL and leaves every
\* header and footer word as it was
C7_Exhaustion ==
    (/\ Initialized
     /\ last.op = "alloc"
     /\ last.arg >= 1
     /\ last.arg > FreeTotal(pre))
    => /\ BlockSizeFor(last.arg) > last.arg
       /\ last.back
       /\ last.ret = NULL
       /\ Structure(mem) = Structure(pre)

\* C8 - release validation: free_block returns -1 and changes no word when
\* the pointer is NULL, not a multiple of 8, outside the heap, or when the
\* header before it is free; a pointer that fails an earlier check is never
\* dereferenced
C8_ReleaseValidation ==
    (/\ last.op = "free"
     /\ \/ last.arg = NULL
        \/ last.arg % 8 # 0
        \/ last.arg < heap_start
        \/ last.arg >= EndMark
        \/ last.arg - 4 \in DOMAIN pre /\ And1(pre[last.arg - 4]) = 0)
    => (last.back /\ last.ret = -1 /\ mem = pre)

\* free_block has refused an aligned pointer into the heap whose header is
\* free
C8_Witness ==
    /\ Initialized
    /\ last.op = "free" /\ last.back /\ last.ret = -1
    /\ last.arg # NULL /\ last.arg % 8 = 0
    /\ last.arg >= heap_start /\ last.arg < EndMark
    /\ And1(pre[last.arg - 4]) = 0

\* C9 - double free: a free_block(p) that returned 0, followed at once by
\* another free_block(p): the second returns -1 and changes nothing, and
\* the chain is still whole and without adjacent free blocks
C9_DoubleFree ==
    (/\ Initialized
     /\ prev.op = "free" /\ prev.back /\ prev.ret = 0
     /\ last.op = "free" /\ last.arg = prev.arg)
    => /\ last.back
       /\ last.ret = -1
       /\ mem = pre
       /\ ChainOK(mem)
       /\ NoAdjacentFreeIn(mem)

\* the second release came after one that merged the block into the free
\* block before it and left the arena one free block
C9_Witness ==
    /\ Initialized
    /\ prev.op = "free" /\ prev.back /\ prev.ret = 0
    /\ last.op = "free" /\ last.arg = prev.arg /\ last.ret = -1
    /\ Len(BlocksOf(mem)) = 1
    /\ last.arg - 4 # heap_start

\* C10 - round trip: a successful alloc followed at once by free_block of
\* the address it returned: the release returns 0 and the blocks, their
\* header words and the footer words of the free ones are as before the alloc
C10_RoundTrip ==
    [][(/\ Initialized
        /\ last.op = "alloc" /\ last.back /\ last.ret # NULL
        /\ calls' = calls + 1
        /\ last'.op = "free" /\ last'.arg = last.ret)
       => (/\ last'.back
           /\ last'.ret = 0
           /\ Structure(mem') = Structure(pre))]_vars

\* a block was split off by alloc and released again by the next call
C10_Witness ==
    /\ Initialized
    /\ prev.op = "alloc" /\ prev.back /\ prev.ret # NULL
    /\ last.op = "free" /\ last.back /\ last.arg = prev.ret /\ last.ret = 0
    /\ Len(BlocksOf(pre)) = Len(BlocksOf(mem)) + 1

\* the addresses of the allocated blocks of a heap image
AllocatedBlocks(memory) ==
    LET b == BlocksOf(memory)
    IN  {b[i] : i \in {j \in 1..Len(b) : ~IsFree(memory[b[j]])}}

\* the block of a heap image that contains address a
Containing(memory, a) ==
    CHOOSE b \in {BlocksOf(memory)[i] : i \in 1..Len(BlocksOf(memory))} :
        b <= a /\ a < b + SizeOf(memory[b])

\* the block before block b in a heap image (b is not the first)
Predecessor(memory, b) ==
    CHOOSE c \in {BlocksOf(memory)[i] : i \in 1..Len(BlocksOf(memory))} :
        c + SizeOf(memory[c]) = b

C12_Alignment ==
    (/\ Initialized
     /\ last.op = "alloc" /\ last.back /\ last.ret # NULL)
    => /\ RegionBase % 8 = 0
       /\ heap_start = RegionBase + 4
       /\ last.ret % 8 = 0
       /\ last.ret - 4 \in AllocatedBlocks(mem)

\* alloc has returned the payload of a block that is not the first
C12_Witness ==
    /\ Initialized
    /\ last.op = "alloc" /\ last.back /\ last.ret # NULL
    /\ last.ret - 4 > heap_start

\* s rounded up to a multiple of the page size
RoundedToPage(s) == ((s + PageSize - 1) \div PageSize) * PageSize

\* C13 - initial heap: after a successful init_heap(s), alloc_size is s
\* rounded up to whole pages less 8, heap_start is 4 past the region base,
\* the chain is one free block with header alloc_size + 2 and footer
\* alloc_size, and the word at heap_start + alloc_size is 1
C13_InitialHeap ==
    (last.op = "init" /\ last.ret = 0)
    => /\ allocated_once = 1
       /\ alloc_size = RoundedToPage(last.arg) - 8
       /\ heap_start = RegionBase + 4
       /\ DOMAIN mem = RegionWords(RegionBase, RoundedToPage(last.arg))
       /\ BlocksOf(mem) = <<heap_start>>
       /\ mem[heap_start] = alloc_size + 2
       /\ mem[heap_start + alloc_size - 4] = alloc_size
       /\ mem[heap_start + alloc_size] = 1

\* init_heap has succeeded for a size that is not a whole number of pages
C13_Witness ==
    /\ last.op = "init" /\ last.ret = 0
    /\ last.arg % PageSize # 0

\* C14 - failed initialization: an init_heap that returns -1 leaves
\* heap_start, alloc_size, the arena and the once-only flag as they were
C14_FailedInit ==
    [][(calls' = calls + 1 /\ last'.op = "init" /\ last'.ret = -1)
       => (/\ heap_start' = heap_start
           /\ alloc_size' = alloc_size
           /\ mem' = mem
           /\ allocated_once' = allocated_once)]_vars

\* the free blocks of the heap before the last call whose header has the
\* a-bit set after it: the block alloc selected
Selected == {b \in FreeBlocks(pre) : And1(mem[b]) = 1}

\* the last call was an alloc that returned a payload
AllocDone ==
    /\ Initialized
    /\ last.op = "alloc" /\ last.back /\ last.ret # NULL

\* C15 - split on allocate: when alloc(n) selects a free block of size S
\* larger than the required size r, the block at the selected address b has
\* size r, a-bit 1 and the p-bit it had; the block at b + r has size S - r,
\* a-bit 0, p-bit 1 and footer S - r; and b + 4 is returned
C15_Split ==
    AllocDone
    => /\ Cardinality(Selected) = 1
       /\ \A b \in Selected :
             LET S == SizeOf(pre[b])
                 r == Required(last.arg)
             IN  S > r
                 => /\ SizeOf(mem[b]) = r
                    /\ And1(mem[b]) = 1
                    /\ And2(mem[b]) = And2(pre[b])
                    /\ b + r \in FreeBlocks(mem)
                    /\ SizeOf(mem[b + r]) = S - r
                    /\ And1(mem[b + r]) = 0
                    /\ And2(mem[b + r]) = 2
                    /\ mem[b + S - 4] = S - r
                    /\ last.ret = b + 4

\* alloc has split a block that lies between two allocated blocks
C15_Witness ==
    /\ AllocDone
    /\ \E b \in Selected :
          /\ SizeOf(pre[b]) > Required(last.arg)
          /\ b > heap_start
          /\ b + SizeOf(pre[b]) < EndMark

\* the words a successful alloc may change, b being the selected block
MayChange(b) ==
    LET S == SizeOf(pre[b])
        r == Required(last.arg)
    IN  IF S > r THEN {b, b + r, b + S - 4}
        ELSE IF b + S # EndMark THEN {b, b + S}
        ELSE {b}

\* C16 - frame of allocate: a successful alloc changes only the header of
\* the selected block, header and footer of the remainder when it splits,
\* and bit 1 of the successor's header on an exact fit when the successor is
\* not the end mark; every other word, the end mark included, is unchanged
C16_Frame ==
    AllocDone
    => /\ DOMAIN mem = DOMAIN pre
       /\ mem[EndMark] = pre[EndMark]
       /\ \A b \in Selected :
             /\ \A a \in DOMAIN mem : mem[a] # pre[a] => a \in MayChange(b)
             /\ SizeOf(pre[b]) = Required(last.arg) /\ b + SizeOf(pre[b]) # EndMark
                => AndNot2(mem[b + SizeOf(pre[b])]) =
                   AndNot2(pre[b + SizeOf(pre[b])])

\* alloc has taken an exact fit that ends at the end mark, with other blocks
\* before it
C16_Witness ==
    /\ AllocDone
    /\ \E b \in Selected :
          /\ SizeOf(pre[b]) = Required(last.arg)
          /\ b + SizeOf(pre[b]) = EndMark
          /\ b > heap_start

\* the last call was a free_block that released an allocated block and the
\* free block it left ends at the end mark
FreedAtArenaEnd ==
    /\ Initialized
    /\ last.op = "free" /\ last.back /\ last.ret = 0
    /\ last.arg - 4 \in AllocatedBlocks(pre)
    /\ LET b == Containing(mem, last.arg - 4)
       IN  b + SizeOf(mem[b]) = EndMark

\* C17 - footer skip at the arena end, as claimed: when the merged block
\* ends at the end mark, the 4 bytes before the end mark keep their value
C17_FooterSkip ==
    FreedAtArenaEnd => mem[EndMark - 4] = pre[EndMark - 4]

\* C17 - footer at the arena end, as the code has it: when the merged block
\* ends at the end mark, the 4 bytes before the end mark hold its size
C17_FooterWritten ==
    FreedAtArenaEnd
    => mem[EndMark - 4] = SizeOf(mem[Containing(mem, last.arg - 4)])

\* a release has left a block ending at the end mark and the word before
\* the end mark has a new value
C17_Witness ==
    /\ FreedAtArenaEnd
    /\ mem[EndMark - 4] # pre[EndMark - 4]

\* the scan of the last alloc, run again on the heap it started from
Scan ==
    Search(Machine(pre), heap_start, BlockSizeFor(last.arg), NULL, INT_MAX,
           EndMark, Fuel(pre))

\* the number of blocks the scan visited before it stopped
Visited == Fuel(pre) - Scan.left

\* the position in the chain of the first free block of exactly size r, or
\* 0 when there is none
FirstExact(memory, r) ==
    LET b == BlocksOf(memory)
        hits == {i \in 1..Len(b) : IsFree(memory[b[i]]) /\ SizeOf(memory[b[i]]) = r}
    IN  IF hits = {} THEN 0 ELSE CHOOSE i \in hits : \A j \in hits : i <= j

\* the last call was an alloc that scanned the heap
Scanned ==
    /\ Initialized
    /\ last.op = "alloc" /\ ~TooSmall(last.arg)

\* every call made on an initialized heap has returned
Returns ==
    (Initialized /\ last.op \in {"alloc", "free"})
    => /\ last.back
       /\ status = "ready"
       /\ last.op = "alloc" => last.ret = NULL \/ last.ret - 4 \in AllocatedBlocks(mem)
       /\ last.op = "free" => last.ret \in {0, -1}

\* C18 - termination: on an initialized heap every alloc and every
\* free_block returns, and the scan of alloc reaches the end mark after
\* visiting each block of the chain once, unless it meets a free block of
\* exactly the required size first, which alloc returns at once
C18_Termination ==
    /\ Returns
    /\ Scanned
       => LET first == FirstExact(pre, Required(last.arg))
          IN  IF first = 0
              THEN /\ Scan.kind = "end"
                   /\ Scan.at = EndMark
                   /\ Visited = Len(BlocksOf(pre))
              ELSE /\ Scan.kind = "exact"
                   /\ Scan.at = BlocksOf(pre)[first]
                   /\ Visited = first - 1
                   /\ last.ret = Scan.at + 4

\* the addresses the last call stored to: the call run again on the heap it
\* started from
Written ==
    IF last.op = "alloc" THEN alloc_run(pre, last.arg).wr
    ELSE IF last.op = "free" THEN free_run(pre, last.arg).wr
    ELSE {}

\* the addresses of the blocks of a heap image
Blocks(memory) == {BlocksOf(memory)[i] : i \in 1..Len(BlocksOf(memory))}

\* address a lies in the payload of block b of a heap image
InPayload(memory, b, a) == b + 4 <= a /\ a < b + SizeOf(memory[b])

\* address a is the header of a block, or lies inside a free block, of a
\* heap image
HeaderOrFree(memory, a) ==
    \/ a \in Blocks(memory)
    \/ \E f \in FreeBlocks(memory) : f <= a /\ a < f + SizeOf(memory[f])

\* C19 - live payloads are never written by the allocator: no alloc or
\* free_block stores into the payload of a block that is allocated before
\* and after the call; every store lands on a block header or inside a free
\* block (of the heap before or after the call); a block that stays
\* allocated keeps its size; and the payload alloc(n) returns holds at least
\* n bytes inside one block of the chain
C19_LivePayloads ==
    (Initialized /\ last.op \in {"alloc", "free"})
    => /\ \A a \in Written :
             /\ \A b \in AllocatedBlocks(pre) \cap AllocatedBlocks(mem) :
                   ~InPayload(pre, b, a) /\ ~InPayload(mem, b, a)
             /\ HeaderOrFree(pre, a) \/ HeaderOrFree(mem, a)
       /\ \A b \in AllocatedBlocks(pre) \cap AllocatedBlocks(mem) :
             SizeOf(mem[b]) = SizeOf(pre[b])
       /\ (last.op = "alloc" /\ last.back /\ last.ret # NULL)
          => /\ ChainOK(mem)
             /\ last.ret - 4 \in AllocatedBlocks(mem)
             /\ last.ret - 4 \notin AllocatedBlocks(pre)
             /\ CanHold(SizeOf(mem[last.ret - 4]), last.arg)
             /\ last.ret - 4 + SizeOf(mem[last.ret - 4]) <= EndMark

\* the header positions of the arena: heap_start + 8k below the end mark
HeaderPositions == {a \in DOMAIN mem : a >= heap_start /\ a < EndMark /\ (a - heap_start) % 8 = 0}

\* C20 - stale headers never look allocated: every word at a header position
\* that is not the header of a currently allocated block has a-bit 0; and
\* free_block(p) returns 0 exactly when p is the payload address of a
\* currently allocated block, and -1 without changing a word otherwise
C20_StaleHeaders ==
    (Initialized /\ status = "ready")
    => /\ \A a \in HeaderPositions :
             And1(mem[a]) = 1 => a \in AllocatedBlocks(mem)
       /\ last.op = "free"
          => /\ last.back
             /\ last.ret = 0 <=> last.arg - 4 \in AllocatedBlocks(pre)
             /\ last.ret # 0 => last.ret = -1 /\ mem = pre

\* free_block has refused a payload that was released earlier and has since
\* been absorbed: its old header lies inside a free block
C20_Witness ==
    /\ Initialized /\ status = "ready"
    /\ last.op = "free" /\ last.back /\ last.ret = -1
    /\ last.arg - 4 \in HeaderPositions
    /\ last.arg - 4 \notin Blocks(mem)
    /\ IsFree(mem[Containing(mem, last.arg - 4)])

====
